---- MODULE Spec2Model ----
(***************************************************************************)
(* Model of the COBS codec of src/src/cobs.cpp: getCOBSBufferSize,         *)
(* encodeCOBS (with its FinishBlock macro) and decodeCOBS, plus the        *)
(* in-place decoder that src/src/cobs.h declares.                          *)
(*                                                                         *)
(* Buffers are arrays indexed from 0 like the C pointers.  Every array is  *)
(* modelled together with the Slack bytes of memory that follow it, so a   *)
(* store past the end of a buffer is an observable store, and every store  *)
(* and load is recorded (written, max_write, max_read).  The bytes a       *)
(* buffer held before a call are the nondeterministic value fill.          *)
(***************************************************************************)
EXTENDS Integers, Sequences, FiniteSets, TLC

VARIABLES pc, fill, src, add_trailing_zero, output_buffer_size, enc,
          origin, inplace, max_input_length, max_output_length, dec

vars == <<pc, fill, src, add_trailing_zero, output_buffer_size, enc,
          origin, inplace, max_input_length, max_output_length, dec>>

(* ---------------------------- program constants ------------------------ *)

zero_byte == 0

\* 0xFF: the code value that closes a block of 254 literals
MaxCode == 255

\* the divisor of the worst-case overhead, input_size / 254
RunPerOverhead == 254

\* size_t is 16 bits wide on the 8-bit Arduino targets of the library
SizeBits == 16

SizeMod == 2 ^ SizeBits

\* bytes of memory modelled after the end of each buffer
Slack == 2

(* ------------------------------- bounds -------------------------------- *)

\* longest short input, all sequences over SmallBytes
MaxLen == 3

\* longest run of non-zero bytes in a long input (runs start at 253)
MaxRun == 255

\* longest raw (possibly non-COBS) buffer handed to the decoder
MaxRaw == 3

SmallBytes == {0, 17, 34}

RawBytes == {0, 1, 2, 3, 255}

FillBytes == {0, 90}

SeqsUpTo(S, n) == UNION {[1..k -> S] : k \in 0..n}

\* k non-zero bytes
Run(k) == [j \in 1..k |-> 1 + (j % 200)]

Edge == {<< >>, <<0>>, <<17>>}

RunLens == (RunPerOverhead - 1)..MaxRun

ShortInputs == SeqsUpTo(SmallBytes, MaxLen) \cup {<<17, 34, 0, 51>>}

LongInputs == {h \o Run(k) \o t : h \in Edge, t \in Edge, k \in RunLens}

Inputs == ShortInputs \cup LongInputs

RawInputs == SeqsUpTo(RawBytes, MaxRaw)

\* a buffer of cap bytes, and the memory after it, holding the byte f
Blank(cap, f) == [k \in 0..(cap + Slack - 1) |-> f]

\* a buffer holding the bytes of s, followed by memory holding f
Holding(s, f) == [k \in 0..(Len(s) + Slack - 1) |->
                     IF k < Len(s) THEN s[k + 1] ELSE f]

(* --------------------------- getCOBSBufferSize ------------------------- *)

getCOBSBufferSize(input_size, with_trailing_zero) ==
    LET output_size == (input_size + input_size \div RunPerOverhead + 1) % SizeMod
    IN  IF with_trailing_zero THEN (output_size + 1) % SizeMod ELSE output_size

(* ------------------------------ encodeCOBS ----------------------------- *)

NoEnc == [input_buffer |-> 0, output_buffer |-> 0, code_ptr |-> 0, code |-> 0,
          out |-> << >>, written |-> {}, ret |-> 0]

\* the state of encodeCOBS when it enters its while loop
EncodeEntry(out0) ==
    [input_buffer |-> 0, output_buffer |-> 1, code_ptr |-> 0, code |-> 1,
     out |-> out0, written |-> {}, ret |-> 0]

\* *p = v, recorded
EncStore(e, p, v) ==
    [e EXCEPT !.out = [k \in DOMAIN e.out |-> IF k = p THEN v ELSE e.out[k]],
              !.written = e.written \cup {p}]

\* FinishBlock storing one less than the count
FinishBlock_OffByOne(e, X) ==
    [EncStore(e, e.code_ptr, X - 1) EXCEPT
        !.code_ptr = e.output_buffer,
        !.output_buffer = e.output_buffer + 1,
        !.code = 1]

\* (*code_ptr = (X), code_ptr = output_buffer++, code = 0x01)
FinishBlock(e, X) ==
    [EncStore(e, e.code_ptr, X) EXCEPT
        !.code_ptr = e.output_buffer,
        !.output_buffer = e.output_buffer + 1,
        !.code = 1]

\* the loop body closing a block one literal early, at code 0xFE
EncodeLoopBody_EarlySplit(s, e) ==
    LET byte == s[e.input_buffer + 1]
        e1 == IF byte = zero_byte
              THEN FinishBlock(e, e.code)
              ELSE LET c == [EncStore(e, e.output_buffer, byte) EXCEPT
                                !.output_buffer = e.output_buffer + 1,
                                !.code = (e.code + 1) % 256]
                   IN  IF c.code = MaxCode - 1 THEN FinishBlock(c, c.code) ELSE c
    IN  [e1 EXCEPT !.input_buffer = e.input_buffer + 1]

\* one iteration of while (input_buffer < input_buffer_end)
EncodeLoopBody(s, e) ==
    LET byte == s[e.input_buffer + 1]
        e1 == IF byte = zero_byte
              THEN FinishBlock(e, e.code)
              ELSE LET c == [EncStore(e, e.output_buffer, byte) EXCEPT
                                !.output_buffer = e.output_buffer + 1,
                                !.code = (e.code + 1) % 256]
                   IN  IF c.code = MaxCode THEN FinishBlock(c, c.code) ELSE c
    IN  [e1 EXCEPT !.input_buffer = e.input_buffer + 1]

\* the code after the loop: last FinishBlock, optional delimiter, return
EncodeTail(e, add_zero) ==
    LET e1 == FinishBlock(e, e.code)
        e2 == IF add_zero
              THEN [EncStore(e1, e1.output_buffer, zero_byte) EXCEPT
                       !.output_buffer = e1.output_buffer + 1]
              ELSE e1
    IN  [e2 EXCEPT !.ret = (e2.output_buffer - 0 - 1) % SizeMod]

RECURSIVE EncodeLoop(_, _)
EncodeLoop(s, e) ==
    IF e.input_buffer < Len(s) THEN EncodeLoop(s, EncodeLoopBody(s, e)) ELSE e

\* the whole call, as a function of its arguments and of the buffer's
\* prior contents
encodeCOBS(s, out0, size, add_zero) ==
    IF size < getCOBSBufferSize(Len(s), add_zero)
    THEN [NoEnc EXCEPT !.out = out0]
    ELSE EncodeTail(EncodeLoop(s, EncodeEntry(out0)), add_zero)

\* the first n bytes of array a, as a sequence
Bytes(a, n) == [k \in 1..n |-> a[k - 1]]

(* ------------------------------ decodeCOBS ----------------------------- *)

NoDec == [buf |-> << >>, out |-> << >>, encoded_input |-> 0,
          decoded_output |-> 0, code |-> 0, i |-> 0,
          max_read |-> -1, max_write |-> -1, ret |-> 0]

Max(a, b) == IF a > b THEN a ELSE b

\* the state of decodeCOBS when it enters its while loop; buf is the memory
\* encoded_input points into, out the memory decoded_output points into
DecodeEntry(buf0, out0) == [NoDec EXCEPT !.buf = buf0, !.out = out0]

\* the two sanity checks on the buffer sizes
DecodeRejects(in_len, out_len) ==
    \/ in_len = 0
    \/ out_len = 0
    \/ out_len < (in_len - 1) % SizeMod

\* a load of *encoded_input, recorded
DecLoad(d) == [d EXCEPT !.max_read = Max(d.max_read, d.encoded_input)]

\* *decoded_output = v, recorded; with alias the store goes to the memory
\* that is being read
DecStore(d, v, alias) ==
    LET p == d.decoded_output
        m == [d EXCEPT !.max_write = Max(d.max_write, p)]
    IN  IF alias
        THEN [m EXCEPT !.buf = [k \in DOMAIN d.buf |-> IF k = p THEN v ELSE d.buf[k]]]
        ELSE [m EXCEPT !.out = [k \in DOMAIN d.out |-> IF k = p THEN v ELSE d.out[k]]]

\* encoded_input < input_buffer_end && *encoded_input != 0
DecodeLoopCond(d, in_len) ==
    /\ d.encoded_input < in_len
    /\ d.buf[d.encoded_input] # zero_byte

\* read the code byte, limit it to the rest of the input, step over it
DecodeBlockStart(d, in_len) ==
    LET rest == in_len - d.encoded_input
        byte == d.buf[d.encoded_input]
        c    == IF byte > rest THEN rest ELSE byte
    IN  [DecLoad(d) EXCEPT !.code = c,
                           !.encoded_input = d.encoded_input + 1,
                           !.i = 1]

\* one iteration of for (uint8_t i=1; i < code; i++)
DecodeCopy(d, alias) ==
    LET l == DecLoad(d)
        s == DecStore(l, d.buf[d.encoded_input], alias)
    IN  [s EXCEPT !.encoded_input = d.encoded_input + 1,
                  !.decoded_output = d.decoded_output + 1,
                  !.i = (d.i + 1) % 256]

\* the block end without the 0xFF special case
DecodeBlockEnd_AlwaysZero(d, alias) ==
    [DecStore(d, zero_byte, alias) EXCEPT !.decoded_output = d.decoded_output + 1]

\* if (code < 0xFF) { *decoded_output = zero_byte; decoded_output++; }
DecodeBlockEnd(d, alias) ==
    IF d.code < MaxCode
    THEN [DecStore(d, zero_byte, alias) EXCEPT !.decoded_output = d.decoded_output + 1]
    ELSE d

\* the loop condition fails (its load of *encoded_input is made only inside
\* the input) and the function returns
DecodeExit(d, in_len) ==
    LET l == IF d.encoded_input < in_len THEN DecLoad(d) ELSE d
    IN  [l EXCEPT !.ret = (d.decoded_output - 0 - 1) % SizeMod]

(* ------------------------------- actions ------------------------------- *)

Init ==
    /\ pc = "idle"
    /\ fill \in FillBytes
    /\ src = << >>
    /\ add_trailing_zero = FALSE
    /\ output_buffer_size = 0
    /\ enc = NoEnc
    /\ origin = "none"
    /\ inplace = FALSE
    /\ max_input_length = 0
    /\ max_output_length = 0
    /\ dec = NoDec

decvars == <<origin, inplace, max_input_length, max_output_length, dec>>

\* encodeCOBS up to its while loop: the size check and the initialisations
EncodeCall ==
    /\ pc = "idle"
    /\ \E s \in Inputs, d \in BOOLEAN, short \in 0..1 :
          LET need == getCOBSBufferSize(Len(s), d)
              size == need - short
          IN  /\ src' = s
              /\ add_trailing_zero' = d
              /\ output_buffer_size' = size
              /\ IF size < need
                 THEN /\ enc' = [NoEnc EXCEPT !.out = Blank(size, fill)]
                      /\ pc' = "enc_done"
                 ELSE /\ enc' = EncodeEntry(Blank(size, fill))
                      /\ pc' = "enc_loop"
    /\ UNCHANGED <<fill, decvars>>

EncodeStep ==
    /\ pc = "enc_loop"
    /\ enc.input_buffer < Len(src)
    /\ enc' = EncodeLoopBody(src, enc)
    /\ UNCHANGED <<pc, fill, src, add_trailing_zero, output_buffer_size, decvars>>

EncodeFinish ==
    /\ pc = "enc_loop"
    /\ ~(enc.input_buffer < Len(src))
    /\ enc' = EncodeTail(enc, add_trailing_zero)
    /\ pc' = "enc_done"
    /\ UNCHANGED <<fill, src, add_trailing_zero, output_buffer_size, decvars>>

encvars == <<fill, src, add_trailing_zero, output_buffer_size, enc>>

\* decodeCOBS up to its while loop, called with the buffer buf0 of in_len
\* bytes and an output buffer of out_len bytes
DecodeCall(buf0, in_len, out_len, org) ==
    /\ origin' = org
    /\ inplace' = FALSE
    /\ max_input_length' = in_len
    /\ max_output_length' = out_len
    /\ dec' = DecodeEntry(buf0, Blank(out_len, fill))
    /\ pc' = IF DecodeRejects(in_len, out_len) THEN "dec_done" ELSE "dec_loop"
    /\ UNCHANGED encvars

\* decodeCOBS_inplace: the decoder with the output aliased to the input
decodeCOBS_inplace(buf0, in_len, org) ==
    /\ origin' = org
    /\ inplace' = TRUE
    /\ max_input_length' = in_len
    /\ max_output_length' = in_len
    /\ dec' = DecodeEntry(buf0, << >>)
    /\ pc' = IF in_len < 2 THEN "dec_done" ELSE "dec_loop"
    /\ UNCHANGED encvars

\* the caller decodes what encodeCOBS returned, with the length it returned
DecodeEncoded ==
    /\ pc = "enc_done"
    /\ enc.ret > 0
    /\ \E out_len \in {enc.ret - 1, enc.ret} :
          DecodeCall(enc.out, enc.ret, out_len, "enc")

\* the caller decodes a buffer of arbitrary bytes
DecodeRaw ==
    /\ pc = "idle"
    /\ \E raw \in RawInputs, out_len \in 0..(MaxRaw + 1) :
          /\ out_len <= Len(raw) + 1
          /\ DecodeCall(Holding(raw, fill), Len(raw), out_len, "raw")

DecodeInPlaceEncoded ==
    /\ pc = "enc_done"
    /\ enc.ret > 0
    /\ decodeCOBS_inplace(enc.out, enc.ret, "enc")

DecodeInPlaceRaw ==
    /\ pc = "idle"
    /\ \E raw \in RawInputs :
          decodeCOBS_inplace(Holding(raw, fill), Len(raw), "raw")

callvars == <<origin, inplace, max_input_length, max_output_length>>

DecodeLoopEnter ==
    /\ pc = "dec_loop"
    /\ DecodeLoopCond(dec, max_input_length)
    /\ dec' = DecodeBlockStart(dec, max_input_length)
    /\ pc' = "dec_copy"
    /\ UNCHANGED <<encvars, callvars>>

DecodeCopyStep ==
    /\ pc = "dec_copy"
    /\ dec.i < dec.code
    /\ dec' = DecodeCopy(dec, inplace)
    /\ UNCHANGED <<pc, encvars, callvars>>

DecodeCloseBlock ==
    /\ pc = "dec_copy"
    /\ ~(dec.i < dec.code)
    /\ dec' = DecodeBlockEnd(dec, inplace)
    /\ pc' = "dec_loop"
    /\ UNCHANGED <<encvars, callvars>>

DecodeReturn ==
    /\ pc = "dec_loop"
    /\ ~DecodeLoopCond(dec, max_input_length)
    /\ dec' = DecodeExit(dec, max_input_length)
    /\ pc' = "dec_done"
    /\ UNCHANGED <<encvars, callvars>>

Next ==
    \/ EncodeCall \/ EncodeStep \/ EncodeFinish
    \/ DecodeEncoded \/ DecodeRaw \/ DecodeInPlaceEncoded \/ DecodeInPlaceRaw
    \/ DecodeLoopEnter \/ DecodeCopyStep \/ DecodeCloseBlock \/ DecodeReturn

(* ------------------------------ properties ----------------------------- *)

\* the call of encodeCOBS has returned and its size check passed
EncodeSucceeded ==
    /\ pc = "enc_done"
    /\ output_buffer_size >= getCOBSBufferSize(Len(src), add_trailing_zero)

\* number of non-zero bytes at the end of s
TrailingRun(s) ==
    LET ks == {k \in 0..Len(s) : \A j \in (Len(s) - k + 1)..Len(s) : s[j] # zero_byte}
    IN  CHOOSE k \in ks : \A m \in ks : m <= k

\* C1: round trip: decoding what encode wrote, with the length encode
\* returned and an output buffer at least that long, returns len(s) and
\* yields the bytes of s, for both delimiter settings and any prior contents
\* of the buffers.
RoundTrip ==
    (/\ pc = "dec_done"
     /\ origin = "enc"
     /\ ~inplace
     /\ max_output_length >= max_input_length)
        => /\ dec.ret = Len(src)
           /\ Bytes(dec.out, Len(src)) = src

\* C2: no-sentinel invariant: encode(s, false) succeeds with a result n >= 1
\* and each of the n output bytes at indices 0..n-1 is in 1..255.
NoSentinel ==
    (EncodeSucceeded /\ ~add_trailing_zero)
        => /\ enc.ret >= 1
           /\ \A k \in 0..(enc.ret - 1) : enc.out[k] \in 1..255

NoSentinelWitness ==
    /\ EncodeSucceeded
    /\ ~add_trailing_zero
    /\ Len(src) >= RunPerOverhead
    /\ \E j \in 1..Len(src) : src[j] = zero_byte
    /\ fill = zero_byte

\* C3: trailing delimiter: encode(s, true) returns len(encode(s, false)) + 1
\* and its output is the bytes of encode(s, false) followed by one 0x00 at
\* the last index, whatever the buffer held before; encode([], true) is
\* [0x01, 0x00] and encode([0x11,0x22,0x00,0x33], true) is
\* [0x03,0x11,0x22,0x02,0x33,0x00].
TrailingDelimiter ==
    (EncodeSucceeded /\ add_trailing_zero)
        => LET size == getCOBSBufferSize(Len(src), FALSE)
               ref  == encodeCOBS(src, Blank(size, fill), size, FALSE)
               got  == Bytes(enc.out, enc.ret)
           IN  /\ enc.ret = ref.ret + 1
               /\ got = Append(Bytes(ref.out, ref.ret), zero_byte)
               /\ src = << >> => got = <<1, 0>>
               /\ src = <<17, 34, 0, 51>> => got = <<3, 17, 34, 2, 51, 0>>

\* C4: size bound: the length a successful encode(s, d) returns is at least 1
\* and at most bufferSize(len(s), d), which is
\* len(s) + floor(len(s)/254) + 1 + (1 if d else 0).
SizeBound ==
    EncodeSucceeded
        => LET bound == Len(src) + Len(src) \div 254 + 1
                        + (IF add_trailing_zero THEN 1 ELSE 0)
           IN  /\ enc.ret >= 1
               /\ enc.ret <= bound
               /\ getCOBSBufferSize(Len(src), add_trailing_zero) = bound

SizeBoundWitness ==
    /\ EncodeSucceeded
    /\ Len(src) >= RunPerOverhead
    /\ enc.ret = getCOBSBufferSize(Len(src), add_trailing_zero)

\* C5: when a run of 254 non-zero bytes ends exactly at the last input byte,
\* the last block of the encoding is the code byte 0xFF followed by those 254
\* bytes, with no further block after it; an input of exactly 254 non-zero
\* bytes encodes without delimiter to exactly 255 bytes.
RunAtEndClosesWithFF ==
    (/\ EncodeSucceeded
     /\ TrailingRun(src) > 0
     /\ TrailingRun(src) % RunPerOverhead = 0)
        => LET m == enc.ret - (IF add_trailing_zero THEN 1 ELSE 0)
               n == Len(src)
           IN  /\ m >= MaxCode
               /\ enc.out[m - MaxCode] = MaxCode
               /\ \A j \in 1..RunPerOverhead :
                     enc.out[m - MaxCode + j] = src[n - RunPerOverhead + j]
               /\ (n = RunPerOverhead /\ ~add_trailing_zero) => enc.ret = MaxCode

\* C6: decoder buffer safety: whatever the input bytes and for all lengths
\* that pass the length checks, decode loads no input index >= len(input)
\* and stores to no output index >= the output capacity.
DecoderBufferSafety ==
    (~inplace /\ pc \in {"dec_loop", "dec_copy", "dec_done"})
        => /\ dec.max_read < max_input_length
           /\ dec.max_write < max_output_length

\* C7: decoded length bound: for an input of length L >= 1 with any bytes,
\* the size_t value decode returns is at most L - 1.
DecodedLengthBound ==
    (pc = "dec_done" /\ ~inplace /\ max_input_length >= 1)
        => dec.ret <= max_input_length - 1

\* C8: decode error precondition: when len(input) < 2, or len(output) = 0,
\* or len(output) < len(input) - 1, decode returns 0 and stores nothing.
DecodeErrorPrecondition ==
    (/\ pc = "dec_done"
     /\ ~inplace
     /\ \/ max_input_length < 2
        \/ max_output_length = 0
        \/ max_output_length < max_input_length - 1)
        => /\ dec.ret = 0
           /\ dec.max_write = -1

\* C9: in-place decoding: at every step the write cursor is at most the read
\* cursor and every store so far went to an index already read; decoding
\* the buffer of encode(s, false) in place with the exact encoded length
\* leaves s in the leading len(s) bytes.
InPlaceDecoding ==
    inplace
        => /\ dec.decoded_output <= dec.encoded_input
           /\ dec.max_write < dec.encoded_input
           /\ (pc = "dec_done" /\ origin = "enc" /\ ~add_trailing_zero)
                 => Bytes(dec.buf, Len(src)) = src

InPlaceDecodingWitness ==
    /\ inplace
    /\ pc = "dec_done"
    /\ origin = "enc"
    /\ ~add_trailing_zero
    /\ Len(src) > RunPerOverhead
    /\ \E j \in 1..Len(src) : src[j] = zero_byte
    /\ dec.max_write = Len(src)

\* C10: encoder write bounds: with an output buffer of exactly
\* bufferSize(len(s), d) bytes, encode stores to every index 0..n-1 and to
\* no index at or beyond the length n it returns.
EncoderWriteBounds ==
    (/\ pc = "enc_done"
     /\ output_buffer_size = getCOBSBufferSize(Len(src), add_trailing_zero))
        => enc.written = 0..(enc.ret - 1)

Spec == Init /\ [][Next]_vars

====
